---- MODULE Spec2Model ----
(***************************************************************************)
(* The uTP connection engine of src/src/utp/socket.rs (UtpSocket): the     *)
(* handshake, the dispatch table, the send pipeline with its window gate,  *)
(* the receive loop with its timeout backoff, and the congestion           *)
(* responses.  One record per endpoint holds the UtpSocket fields, one the *)
(* position and locals of the call in progress, one the datagram socket.   *)
(* The remote side is either arbitrary (a specification with one endpoint) *)
(* or a second endpoint running the same code (SpecPair).                  *)
(***************************************************************************)
EXTENDS Integers, Sequences, FiniteSets, TLC

VARIABLES sock, call, udp, hist

vars == <<sock, call, udp, hist>>

(***************************************************************************)
(* Bounds of the model.                                                    *)
(***************************************************************************)
\* u16 arithmetic of SequenceNumber and ConnectionId
Mod == 65536
\* SequenceNumber::random() draws from SeqBase .. SeqBase + MaxRand (mod 2^16)
SeqBase == Mod - 1
MaxRand == 1
\* ConnectionId::make_ids() draws from IdBase .. (mod 2^16)
IdBase == Mod - 1
\* packets an endpoint may build (sequence numbers it may consume) over its life
MaxBuilt == 4
\* the same for the accepting endpoint of SpecPair
MaxBuiltPair == 4
\* send() buffers: 0, 100 and k * 2700 bytes for k in 1 .. MaxData
MaxData == 1
\* on_congestion_timeout_expired is taken while congestion_timeout < 2^MaxBackoff
MaxBackoff == 1
\* cwnd values of SpecFn: k * 700 and k * 700 + 1 for k in 0 .. MaxCwndK, and
\* one very large value
MaxCwndK == 9

(***************************************************************************)
(* Program constants.                                                      *)
(***************************************************************************)
INIT_CWND == 2
MIN_CWND == 2
MSS == 1400
\* the window every transmitted header advertises
WINDOW_SIZE == 1048576
\* attempts of connect's and receive_packet's loops (for _ in 0..3)
ATTEMPTS == 3
\* super::{HEADER_SIZE, UDP_IPV4_MTU, UDP_IPV6_MTU}
HEADER_SIZE == 20
UDP_IPV4_MTU == 1420
UDP_IPV6_MTU == 1400

Families == {"v4", "v6"}
PacketTypes == {"Syn", "State", "Data", "Fin", "Reset"}

Min(a, b) == IF a <= b THEN a ELSE b
Max(a, b) == IF a >= b THEN a ELSE b

RECURSIVE Pow2(_)
Pow2(n) == IF n = 0 THEN 1 ELSE 2 * Pow2(n - 1)

\* SequenceNumber / ConnectionId `+ n` and `- n` on u16
Add16(a, n) == (a + n) % Mod
Sub16(a, n) == (a + Mod - n) % Mod

\* SequenceNumber::cmp_less_equal: wrap-aware a <= b
cmp_less_equal(a, b) == ((b + Mod - a) % Mod) < (Mod \div 2)

\* wrap-aware a < b
cmp_less(a, b) == a # b /\ cmp_less_equal(a, b)

RandSeqs == {(SeqBase + i) % Mod : i \in 0 .. MaxRand}
\* the ids make_ids() draws for the endpoints, and the ids a remote's Syn carries
RandIds == {IdBase}
PeerIds == {(IdBase + 2) % Mod}

(***************************************************************************)
(* Packets: the header fields the core reads or writes, and the size in    *)
(* bytes (header plus payload).                                            *)
(***************************************************************************)
Header(type, cid, seq, ack, size) ==
    [type |-> type, connection_id |-> cid, seq_number |-> seq,
     ack_number |-> ack, window_size |-> WINDOW_SIZE, size |-> size]

NoPacket == [type |-> "NoPacket", connection_id |-> 0, seq_number |-> 0,
             ack_number |-> 0, window_size |-> 0, size |-> 0]

\* ConnectionId::make_ids(): (recv_id, send_id) with recv_id = send_id + 1
make_ids(id) == [recv_id |-> Add16(id, 1), send_id |-> id]

\* UtpSocket::new
new(local, id, seq) ==
    [local |-> local,
     remote |-> "None",
     recv_id |-> make_ids(id).recv_id,
     send_id |-> make_ids(id).send_id,
     state |-> "None",
     ack_number |-> 0,
     seq_number |-> seq,
     delay |-> 0,
     remote_window |-> INIT_CWND * MSS,
     inflight_packets |-> <<>>,
     cwnd |-> INIT_CWND * MSS,
     congestion_timeout |-> 1]

RECURSIVE SumSizes(_)
SumSizes(q) == IF q = <<>> THEN 0 ELSE Head(q).size + SumSizes(Tail(q))

\* UtpSocket::inflight_size
inflight_size(s) == SumSizes(s.inflight_packets)

\* UtpSocket::is_packet_acked
is_packet_acked(s, n) ==
    ~ \E i \in 1 .. Len(s.inflight_packets) : s.inflight_packets[i].seq_number = n

\* UtpSocket::packet_size
packet_size(s) ==
    IF s.remote = "None" \/ s.remote = "v4"
    THEN UDP_IPV4_MTU - HEADER_SIZE
    ELSE UDP_IPV6_MTU - HEADER_SIZE

\* data.chunks(packet_size): the payload lengths of the chunks of n bytes
RECURSIVE chunks(_, _)
chunks(n, size) ==
    IF n = 0 THEN <<>>
    ELSE IF n <= size THEN <<n>>
    ELSE <<size>> \o chunks(n - size, size)

\* (mutant) the sequence number is not advanced
next_seq_stuck(s) == s

\* `self.seq_number += 1` of connect and send_packet
next_seq(s) == [s EXCEPT !.seq_number = Add16(@, 1)]

\* the window send_packet compares against
window(s) == Min(s.cwnd, s.remote_window)

\* (mutant) the window is halved with no floor
on_data_loss_unbounded(s) == [s EXCEPT !.cwnd = s.cwnd \div 2]

\* (mutant) the floor is applied without the outer min
on_data_loss_floor(s) == [s EXCEPT !.cwnd = Max(s.cwnd \div 2, MIN_CWND * MSS)]

\* UtpSocket::on_data_loss
on_data_loss(s) ==
    [s EXCEPT !.cwnd = Min(s.cwnd, Max(s.cwnd \div 2, MIN_CWND * MSS))]

\* UtpSocket::on_congestion_timeout_expired
on_congestion_timeout_expired(s) ==
    [s EXCEPT !.cwnd = MSS, !.congestion_timeout = 2 * @]

\* UtpSocket::handle_state: `acked.unwrap()` panics when no inflight entry has
\* the ack number; otherwise the front of the queue is popped.  (The delay
\* history it feeds is read by nothing and is left out.)
handle_state(s, p) ==
    IF is_packet_acked(s, p.ack_number)
    THEN [sock |-> s, res |-> "panic"]
    ELSE [sock |-> [s EXCEPT !.inflight_packets = Tail(@)], res |-> "Ok"]

\* (mutant) the (Syn, None) arm adopts the two ids the other way round
dispatch_swapped(s, p, d, rnd) ==
    LET s1 == [s EXCEPT !.delay = d] IN
    IF p.type \notin PacketTypes
    THEN [sock |-> s1, res |-> "Decode"]
    ELSE IF p.type = "Syn" /\ s.state = "None"
    THEN [sock |-> [s1 EXCEPT !.state = "Connected",
                              !.recv_id = p.connection_id,
                              !.send_id = Add16(p.connection_id, 1),
                              !.seq_number = rnd,
                              !.ack_number = p.seq_number],
          res |-> "Ok"]
    ELSE IF p.type = "State" /\ s.state = "SynSent"
    THEN [sock |-> [s1 EXCEPT !.state = "Connected",
                              !.ack_number = Sub16(p.seq_number, 1),
                              !.remote_window = p.window_size],
          res |-> "Ok"]
    ELSE IF p.type = "State" /\ s.state = "Connected"
    THEN handle_state(s1, p)
    ELSE [sock |-> s1, res |-> "Ok"]

\* (mutant) a Fin received in state Connected starts the close
dispatch_fin_closes(s, p, d, rnd) ==
    LET s1 == [s EXCEPT !.delay = d] IN
    IF p.type \notin PacketTypes
    THEN [sock |-> s1, res |-> "Decode"]
    ELSE IF p.type = "Syn" /\ s.state = "None"
    THEN [sock |-> [s1 EXCEPT !.state = "Connected",
                              !.recv_id = Add16(p.connection_id, 1),
                              !.send_id = p.connection_id,
                              !.seq_number = rnd,
                              !.ack_number = p.seq_number],
          res |-> "Ok"]
    ELSE IF p.type = "State" /\ s.state = "SynSent"
    THEN [sock |-> [s1 EXCEPT !.state = "Connected",
                              !.ack_number = Sub16(p.seq_number, 1),
                              !.remote_window = p.window_size],
          res |-> "Ok"]
    ELSE IF p.type = "State" /\ s.state = "Connected"
    THEN handle_state(s1, p)
    ELSE IF p.type = "Fin" /\ s.state = "Connected"
    THEN [sock |-> [s1 EXCEPT !.state = "FinSent"], res |-> "Ok"]
    ELSE [sock |-> s1, res |-> "Ok"]

\* (mutant) a Syn is accepted in every state
dispatch_syn_any(s, p, d, rnd) ==
    LET s1 == [s EXCEPT !.delay = d] IN
    IF p.type \notin PacketTypes
    THEN [sock |-> s1, res |-> "Decode"]
    ELSE IF p.type = "Syn"
    THEN [sock |-> [s1 EXCEPT !.state = "Connected",
                              !.recv_id = Add16(p.connection_id, 1),
                              !.send_id = p.connection_id,
                              !.seq_number = rnd,
                              !.ack_number = p.seq_number],
          res |-> "Ok"]
    ELSE IF p.type = "State" /\ s.state = "SynSent"
    THEN [sock |-> [s1 EXCEPT !.state = "Connected",
                              !.ack_number = Sub16(p.seq_number, 1),
                              !.remote_window = p.window_size],
          res |-> "Ok"]
    ELSE IF p.type = "State" /\ s.state = "Connected"
    THEN handle_state(s1, p)
    ELSE [sock |-> s1, res |-> "Ok"]

\* UtpSocket::dispatch; d is the delay measured from the packet's timestamp,
\* rnd the SequenceNumber::random() drawn in the (Syn, None) arm.  A packet
\* type get_type() does not know is returned as an error.
dispatch(s, p, d, rnd) ==
    LET s1 == [s EXCEPT !.delay = d] IN
    IF p.type \notin PacketTypes
    THEN [sock |-> s1, res |-> "Decode"]
    ELSE IF p.type = "Syn" /\ s.state = "None"
    THEN [sock |-> [s1 EXCEPT !.state = "Connected",
                              !.recv_id = Add16(p.connection_id, 1),
                              !.send_id = p.connection_id,
                              !.seq_number = rnd,
                              !.ack_number = p.seq_number],
          res |-> "Ok"]
    ELSE IF p.type = "State" /\ s.state = "SynSent"
    THEN [sock |-> [s1 EXCEPT !.state = "Connected",
                              !.ack_number = Sub16(p.seq_number, 1),
                              !.remote_window = p.window_size],
          res |-> "Ok"]
    ELSE IF p.type = "State" /\ s.state = "Connected"
    THEN handle_state(s1, p)
    ELSE [sock |-> s1, res |-> "Ok"]

(***************************************************************************)
(* The call in progress on an endpoint: its position (pc), the locals of   *)
(* connect, send, send_packet, wait_for_reception and receive_packet, and  *)
(* the result it returned.  sent and waits record what the call handed to  *)
(* the transport and how long each receive attempt waited.                 *)
(***************************************************************************)
CallIdle ==
    [pc |-> "idle", op |-> "none", ret |-> "none", header |-> NoPacket,
     round |-> 0, packets |-> <<>>, last_seq |-> 0, timeout |-> 0,
     attempt |-> 0, caller |-> "none", sent |-> <<>>, waits |-> <<>>]

\* the call returns r to its caller
Returned(c, r) ==
    [CallIdle EXCEPT !.pc = IF r = "panic" THEN "panicked" ELSE "done",
                     !.op = c.op, !.ret = r, !.sent = c.sent, !.waits = c.waits]

NoSock == new("v4", 0, 0)

HistInit ==
    [built |-> 0, budget |-> MaxBuilt, reseeded |-> FALSE, unacked |-> {}, path |-> <<"None">>,
     pre |-> NoSock]

UdpInit == [connected |-> FALSE, out |-> NoPacket]

Endpoints == DOMAIN sock
Peers(e) == Endpoints \ {e}

\* the state of s appended to the path when it differs from the last one
Visit(path, s) ==
    IF path[Len(path)] = s.state THEN path ELSE Append(path, s.state)

\* sequence numbers of q
Seqs(q) == {q[i].seq_number : i \in 1 .. Len(q)}

(***************************************************************************)
(* What the transport can deliver to endpoint e.                           *)
(***************************************************************************)
DataLens == {0, 100} \cup {k * 2700 : k \in 1 .. MaxData}
Windows == {0, WINDOW_SIZE}
\* the sequence number a remote stamps on its packets
PeerSeqs == {2}
\* what Delay::since(timestamp) measures (Delay::default() is 0)
Delays == {1}
\* every sequence number e can have used, and the next one
AckNumbers == {(SeqBase + i) % Mod : i \in 0 .. MaxRand + MaxBuilt}

\* UtpSocket::send_ack: the State header an endpoint in state s would build
send_ack(s) == Header("State", s.send_id, s.seq_number, s.ack_number, HEADER_SIZE)

\* a buffer PacketRef::ref_from_buffer rejects
Malformed == [NoPacket EXCEPT !.type = "Malformed"]

\* an arbitrary remote: any packet type, the fields dispatch reads varied
\* (the ack number of a State packet, or its sequence number and window)
Adversary ==
    {Header("Syn", cid, seq, 0, HEADER_SIZE) : cid \in PeerIds, seq \in PeerSeqs}
    \cup {Header("State", 0, 2, ack, HEADER_SIZE) : ack \in AckNumbers}
    \cup {[Header("State", 0, seq, SeqBase, HEADER_SIZE) EXCEPT !.window_size = w] :
            seq \in PeerSeqs, w \in Windows}
    \cup {Header(t, 0, 0, 0, HEADER_SIZE) : t \in {"Data", "Fin", "Reset", "Unknown"}}
    \cup {Malformed}

\* a remote running the same code: its last datagram on the wire, and the
\* State reply of an endpoint that has accepted a Syn
FromPeers(e) ==
    {udp[o].out : o \in {x \in Peers(e) : udp[x].out # NoPacket}}
    \cup {send_ack(sock[o]) : o \in {x \in Peers(e) : sock[x].state = "Connected"}}

\* the draws of SequenceNumber::random() that dispatching p can make
Rnds(p) == IF p.type = "Syn" THEN RandSeqs ELSE {SeqBase}

Datagrams(e) == IF Peers(e) = {} THEN Adversary ELSE FromPeers(e)

(***************************************************************************)
(* connect                                                                 *)
(***************************************************************************)
\* (mutant) the family is compared after udp.connect
ConnectCallLate(e, addr) ==
    LET s == sock[e]
        c == [CallIdle EXCEPT !.op = "connect"]
        h == [hist[e] EXCEPT !.pre = s]
    IN
    /\ call[e].pc = "idle"
    /\ hist[e].built + 1 <= hist[e].budget
    /\ \E ok \in BOOLEAN :
         IF ~ok
         THEN /\ call' = [call EXCEPT ![e] = Returned(c, "Transport")]
              /\ hist' = [hist EXCEPT ![e] = h]
              /\ UNCHANGED <<sock, udp>>
         ELSE IF addr # s.local
         THEN /\ udp' = [udp EXCEPT ![e].connected = TRUE]
              /\ call' = [call EXCEPT ![e] = Returned(c, "FamillyMismatch")]
              /\ hist' = [hist EXCEPT ![e] = h]
              /\ UNCHANGED sock
         ELSE /\ udp' = [udp EXCEPT ![e].connected = TRUE]
              /\ hist' = [hist EXCEPT ![e] = [h EXCEPT !.built = @ + 1]]
              /\ sock' = [sock EXCEPT ![e] = next_seq(s)]
              /\ call' = [call EXCEPT ![e] =
                    [c EXCEPT !.pc = "connect_send",
                              !.header = Header("Syn", s.recv_id, s.seq_number,
                                                0, HEADER_SIZE)]]

\* lines 134-148: family check, udp.connect, SYN construction
ConnectCall(e, addr) ==
    LET s == sock[e]
        c == [CallIdle EXCEPT !.op = "connect"]
        h == [hist[e] EXCEPT !.pre = s]
    IN
    /\ call[e].pc = "idle"
    /\ hist[e].built + 1 <= hist[e].budget
    /\ IF addr # s.local
       THEN /\ call' = [call EXCEPT ![e] = Returned(c, "FamillyMismatch")]
            /\ hist' = [hist EXCEPT ![e] = h]
            /\ UNCHANGED <<sock, udp>>
       ELSE \E ok \in BOOLEAN :
              IF ~ok
              THEN /\ call' = [call EXCEPT ![e] = Returned(c, "Transport")]
                   /\ hist' = [hist EXCEPT ![e] = h]
                   /\ UNCHANGED <<sock, udp>>
              ELSE /\ udp' = [udp EXCEPT ![e].connected = TRUE]
                   /\ hist' = [hist EXCEPT ![e] = [h EXCEPT !.built = @ + 1]]
                   /\ sock' = [sock EXCEPT ![e] = next_seq(s)]
                   /\ call' = [call EXCEPT ![e] =
                         [c EXCEPT !.pc = "connect_send",
                                   !.header = Header("Syn", s.recv_id, s.seq_number,
                                                     0, HEADER_SIZE)]]

\* (mutant) the state becomes SynSent as soon as the SYN is sent
ConnectSendLatching(e) ==
    LET c == call[e] IN
    /\ c.pc = "connect_send"
    /\ \E ok \in BOOLEAN :
         IF ~ok
         THEN /\ call' = [call EXCEPT ![e] = Returned(c, "Transport")]
              /\ UNCHANGED <<sock, udp, hist>>
         ELSE /\ udp' = [udp EXCEPT ![e].out = c.header]
              /\ hist' = [hist EXCEPT ![e].reseeded = FALSE]
              /\ call' = [call EXCEPT ![e].pc = "connect_recv",
                                      ![e].sent = Append(@, c.header.seq_number)]
              /\ sock' = [sock EXCEPT ![e].state = "SynSent"]

\* lines 150-154: one round's udp.send of the SYN
ConnectSend(e) ==
    LET c == call[e] IN
    /\ c.pc = "connect_send"
    /\ \E ok \in BOOLEAN :
         IF ~ok
         THEN /\ call' = [call EXCEPT ![e] = Returned(c, "Transport")]
              /\ UNCHANGED <<sock, udp, hist>>
         ELSE /\ udp' = [udp EXCEPT ![e].out = c.header]
              /\ hist' = [hist EXCEPT ![e].reseeded = FALSE]
              /\ call' = [call EXCEPT ![e].pc = "connect_recv",
                                      ![e].sent = Append(@, c.header.seq_number)]
              /\ UNCHANGED sock

\* lines 156-169, 179: the round's receive ends in a timeout
ConnectTimeout(e) ==
    LET c == call[e] IN
    /\ c.pc = "connect_recv"
    /\ call' = [call EXCEPT ![e] =
          IF c.round + 1 < ATTEMPTS
          THEN [c EXCEPT !.pc = "connect_send", !.round = @ + 1]
          ELSE Returned(c, "TimedOut")]
    /\ UNCHANGED <<sock, udp, hist>>

\* lines 166-168: the round's receive fails
ConnectError(e) ==
    LET c == call[e] IN
    /\ c.pc = "connect_recv"
    /\ call' = [call EXCEPT ![e] = Returned(c, "Transport")]
    /\ UNCHANGED <<sock, udp, hist>>

\* lines 157-162, 172-177: a datagram arrives; it is latched, decoded and
\* dispatched
ConnectReply(e, p, d, rnd) ==
    LET c == call[e]
        s1 == [sock[e] EXCEPT !.remote = sock[e].local, !.state = "SynSent"]
        r == dispatch(s1, p, d, rnd)
        h1 == [hist[e] EXCEPT !.path = Visit(@, s1)]
    IN
    /\ c.pc = "connect_recv"
    /\ IF p = Malformed
       THEN /\ sock' = [sock EXCEPT ![e] = s1]
            /\ hist' = [hist EXCEPT ![e] = h1]
            /\ call' = [call EXCEPT ![e] = Returned(c, "Decode")]
       ELSE /\ sock' = [sock EXCEPT ![e] = r.sock]
            /\ hist' = [hist EXCEPT ![e] = [h1 EXCEPT !.path = Visit(@, r.sock)]]
            /\ call' = [call EXCEPT ![e] = Returned(c, r.res)]
    /\ UNCHANGED udp

(***************************************************************************)
(* send                                                                    *)
(***************************************************************************)
\* wait_for_reception's entry, line 194: last_seq = seq_number - 1
EnterWait(c, s) ==
    [c EXCEPT !.pc = "wait_for_reception", !.last_seq = Sub16(s.seq_number, 1)]

\* receive_packet's entry, lines 241-244, called from pc `from`
EnterReceive(c, s, from) ==
    [c EXCEPT !.pc = "receive_packet", !.caller = from,
              !.timeout = s.congestion_timeout, !.attempt = 0, !.waits = <<>>]

\* lines 182-190: the buffer of n bytes is cut into chunks
SendCall(e, n) ==
    LET s == sock[e]
        ps == chunks(n, packet_size(s))
        c == [CallIdle EXCEPT !.op = "send", !.packets = ps]
    IN
    /\ call[e].pc = "idle"
    /\ hist[e].built + Len(ps) <= hist[e].budget
    /\ call' = [call EXCEPT ![e] =
          IF ps = <<>> THEN EnterWait(c, s) ELSE [c EXCEPT !.pc = "send_packet"]]
    /\ hist' = [hist EXCEPT ![e].unacked = {}]
    /\ UNCHANGED <<sock, udp>>

\* the packet send_packet stamps, lines 224-229
Stamp(s, size) == Header("Data", s.send_id, s.seq_number, s.ack_number, size)

\* the inflight queue entry of a packet
Entry(p) == [seq_number |-> p.seq_number, size |-> p.size]

\* (mutant) the bytes in flight are left out of the test
AdmitsAlone(s, size) == ~ (size > window(s))

\* line 217: the window admits a packet of `size` bytes
Admits(s, size) == ~ (size + inflight_size(s) > window(s))

\* lines 213-222: the window does not admit the packet: pump the receive loop
SendPacketWait(e) ==
    LET c == call[e]
        s == sock[e]
    IN
    /\ c.pc = "send_packet"
    /\ ~ Admits(s, Head(c.packets) + HEADER_SIZE)
    /\ call' = [call EXCEPT ![e] = EnterReceive(c, s, "send_packet")]
    /\ UNCHANGED <<sock, udp, hist>>

\* lines 224-237: the packet is admitted, stamped, transmitted and queued
SendPacketTransmit(e) ==
    LET c == call[e]
        s == sock[e]
        p == Stamp(s, Head(c.packets) + HEADER_SIZE)
        s1 == next_seq(s)
        s2 == [s1 EXCEPT !.inflight_packets = Append(@, Entry(p))]
        c2 == [c EXCEPT !.packets = Tail(@), !.sent = Append(@, p.seq_number)]
    IN
    /\ c.pc = "send_packet"
    /\ Admits(s, p.size)
    /\ \E ok \in BOOLEAN :
         IF ~ (ok /\ udp[e].connected)
         THEN /\ sock' = [sock EXCEPT ![e] = s1]
              /\ call' = [call EXCEPT ![e] = Returned(c, "Transport")]
              /\ hist' = [hist EXCEPT ![e].built = @ + 1]
              /\ UNCHANGED udp
         ELSE /\ sock' = [sock EXCEPT ![e] = s2]
              /\ udp' = [udp EXCEPT ![e].out = p]
              /\ hist' = [hist EXCEPT ![e].built = @ + 1, ![e].reseeded = FALSE,
                                      ![e].unacked = @ \cup {p.seq_number}]
              /\ call' = [call EXCEPT ![e] =
                    IF c2.packets = <<>> THEN EnterWait(c2, s2) ELSE c2]

\* (mutant) wait_for_reception returns without looking at the queue
WaitForReceptionNoDrain(e) ==
    LET c == call[e] IN
    /\ c.pc = "wait_for_reception"
    /\ call' = [call EXCEPT ![e] = Returned(c, "Ok")]
    /\ UNCHANGED <<sock, udp, hist>>

\* lines 196-204: the drain loop's test
WaitForReception(e) ==
    LET c == call[e]
        s == sock[e]
    IN
    /\ c.pc = "wait_for_reception"
    /\ call' = [call EXCEPT ![e] =
          IF is_packet_acked(s, c.last_seq)
          THEN Returned(c, "Ok")
          ELSE EnterReceive(c, s, "wait_for_reception")]
    /\ UNCHANGED <<sock, udp, hist>>

(***************************************************************************)
(* receive_packet                                                          *)
(***************************************************************************)
\* lines 247, 252-255, 268: an attempt waits `timeout` and times out
ReceiveTimeout(e) ==
    LET c == call[e]
        c1 == [c EXCEPT !.waits = Append(@, c.timeout), !.timeout = 2 * @,
                        !.attempt = @ + 1]
    IN
    /\ c.pc = "receive_packet"
    /\ call' = [call EXCEPT ![e] =
          IF c1.attempt < ATTEMPTS THEN c1 ELSE Returned(c1, "TimedOut")]
    /\ UNCHANGED <<sock, udp, hist>>

\* (mutant) a failed attempt is counted and retried like a timeout
ReceiveErrorRetried(e) ==
    LET c == call[e]
        c1 == [c EXCEPT !.waits = Append(@, c.timeout), !.attempt = @ + 1]
    IN
    /\ c.pc = "receive_packet"
    /\ call' = [call EXCEPT ![e] =
          IF c1.attempt < ATTEMPTS THEN c1 ELSE Returned(c1, "Transport")]
    /\ UNCHANGED <<sock, udp, hist>>

\* lines 256-258: an attempt fails
ReceiveError(e) ==
    LET c == call[e]
        c1 == [c EXCEPT !.waits = Append(@, c.timeout)]
    IN
    /\ c.pc = "receive_packet"
    /\ call' = [call EXCEPT ![e] = Returned(c1, "Transport")]
    /\ UNCHANGED <<sock, udp, hist>>

\* lines 248-250, 262-266: a datagram arrives, is decoded and dispatched
ReceiveDatagram(e, p, d, rnd) ==
    LET c == call[e]
        c1 == [c EXCEPT !.waits = Append(@, c.timeout)]
        r == dispatch(sock[e], p, d, rnd)
    IN
    /\ c.pc = "receive_packet"
    /\ IF p = Malformed
       THEN /\ call' = [call EXCEPT ![e] = Returned(c1, "Decode")]
            /\ UNCHANGED <<sock, hist>>
       ELSE /\ sock' = [sock EXCEPT ![e] = r.sock]
            /\ hist' = [hist EXCEPT ![e] =
                  [@ EXCEPT !.path = Visit(@, r.sock),
                            !.reseeded = @ \/ (p.type = "Syn" /\ sock[e].state = "None"),
                            !.unacked = IF p.type = "State"
                                        THEN {n \in @ : ~ cmp_less_equal(n, p.ack_number)}
                                        ELSE @]]
            /\ call' = [call EXCEPT ![e] =
                  IF r.res = "Ok"
                  THEN [c1 EXCEPT !.pc = c.caller, !.caller = "none",
                                  !.timeout = 0, !.attempt = 0]
                  ELSE Returned(c1, r.res)]
    /\ UNCHANGED udp

(***************************************************************************)
(* The caller takes the result; the congestion responses.                  *)
(***************************************************************************)
Return(e) ==
    /\ call[e].pc = "done"
    /\ call' = [call EXCEPT ![e] = CallIdle]
    /\ hist' = [hist EXCEPT ![e].pre = NoSock, ![e].unacked = {}]
    /\ UNCHANGED <<sock, udp>>

OnDataLoss(e) ==
    /\ call[e].pc = "idle"
    /\ sock' = [sock EXCEPT ![e] = on_data_loss(@)]
    /\ UNCHANGED <<call, udp, hist>>

OnCongestionTimeoutExpired(e) ==
    /\ call[e].pc = "idle"
    /\ sock[e].congestion_timeout < Pow2(MaxBackoff)
    /\ sock' = [sock EXCEPT ![e] = on_congestion_timeout_expired(@)]
    /\ UNCHANGED <<call, udp, hist>>

(***************************************************************************)
(* Specifications                                                          *)
(***************************************************************************)
InitOver(E) ==
    /\ sock \in [E -> {new(l, id, seq) : l \in Families, id \in RandIds, seq \in RandSeqs}]
    /\ call = [e \in E |-> CallIdle]
    /\ udp = [e \in E |-> UdpInit]
    /\ hist = [e \in E |-> HistInit]

Init == InitOver({"A"})

Receives(e, p) ==
    \E d \in Delays, rnd \in Rnds(p) : ReceiveDatagram(e, p, d, rnd)

Replies(e, p) ==
    \E d \in Delays, rnd \in Rnds(p) : ConnectReply(e, p, d, rnd)

\* the steps of the public calls connect and send
Calls ==
    \/ \E e \in Endpoints, addr \in Families : ConnectCall(e, addr)
    \/ \E e \in Endpoints : ConnectSend(e)
    \/ \E e \in Endpoints : ConnectTimeout(e)
    \/ \E e \in Endpoints : ConnectError(e)
    \/ \E e \in Endpoints : \E p \in Datagrams(e) : Replies(e, p)
    \/ \E e \in Endpoints, n \in DataLens : SendCall(e, n)
    \/ \E e \in Endpoints : SendPacketWait(e)
    \/ \E e \in Endpoints : SendPacketTransmit(e)
    \/ \E e \in Endpoints : WaitForReception(e)
    \/ \E e \in Endpoints : ReceiveTimeout(e)
    \/ \E e \in Endpoints : ReceiveError(e)
    \/ \E e \in Endpoints : \E p \in Datagrams(e) : Receives(e, p)
    \/ \E e \in Endpoints : Return(e)

Next ==
    \/ Calls
    \/ \E e \in Endpoints : OnDataLoss(e)
    \/ \E e \in Endpoints : OnCongestionTimeoutExpired(e)

Spec == Init /\ [][Next]_vars

\* two endpoints running the same code, each the other's remote
\* (Scenario A: both bound to an IPv4 address; A opens, and builds nothing
\* but its SYN)
InitPair ==
    /\ sock = [e \in {"A", "B"} |-> new("v4", IdBase, SeqBase)]
    /\ call = [e \in {"A", "B"} |-> CallIdle]
    /\ udp = [e \in {"A", "B"} |-> UdpInit]
    /\ hist = [e \in {"A", "B"} |->
                 [HistInit EXCEPT !.budget = IF e = "A" THEN 1 ELSE MaxBuiltPair]]

SpecPair == InitPair /\ [][Calls]_vars

\* every step of a call in progress is eventually taken: the transport's
\* send returns and its receive returns a datagram, an error or a timeout
FairSpec == Spec /\ WF_vars(Next)

(***************************************************************************)
(* The functions dispatch and on_data_loss applied to arbitrary sockets:   *)
(* every connection state (FinSent included, which no code path assigns),  *)
(* cwnd values on both sides of the floor, queues of 0 to 2 packets.       *)
(***************************************************************************)
\* enum State
States == {"None", "SynSent", "Connected", "FinSent"}

\* cwnd is a u32; the largest value taken here is 2^31 - 1 (on_data_loss
\* computes no sum or product, so no value of cwnd can overflow in it)
CwndTop == 2 * (Pow2(30) - 1) + 1

Cwnds ==
    {k * 700 : k \in 0 .. MaxCwndK} \cup {k * 700 + 1 : k \in 0 .. MaxCwndK}
    \cup {CwndTop}

Queues ==
    {<<>>,
     <<[seq_number |-> SeqBase, size |-> 120]>>,
     <<[seq_number |-> SeqBase, size |-> 120],
       [seq_number |-> Add16(SeqBase, 1), size |-> 120]>>}

FnSocks ==
    {[new("v4", IdBase, Add16(SeqBase, 2)) EXCEPT
         !.state = st, !.cwnd = c, !.inflight_packets = q] :
        st \in States, c \in Cwnds, q \in Queues}

InitFn ==
    /\ sock \in [{"A"} -> FnSocks]
    /\ call = [e \in {"A"} |-> CallIdle]
    /\ udp = [e \in {"A"} |-> UdpInit]
    /\ hist = [e \in {"A"} |-> HistInit]

\* dispatch applied to the packet p; the socket before it is kept in hist.pre
\* and the packet in the call's header
CallDispatch(e, p, d, rnd) ==
    LET r == dispatch(sock[e], p, d, rnd)
        c == [CallIdle EXCEPT !.op = "dispatch"]
    IN
    /\ call[e].pc = "idle"
    /\ sock' = [sock EXCEPT ![e] = r.sock]
    /\ call' = [call EXCEPT ![e] = [Returned(c, r.res) EXCEPT !.header = p]]
    /\ hist' = [hist EXCEPT ![e].pre = sock[e], ![e].path = Visit(@, r.sock)]
    /\ UNCHANGED udp

\* on_data_loss applied; the socket before it is kept in hist.pre
CallOnDataLoss(e) ==
    LET c == [CallIdle EXCEPT !.op = "on_data_loss"] IN
    /\ call[e].pc = "idle"
    /\ sock' = [sock EXCEPT ![e] = on_data_loss(@)]
    /\ call' = [call EXCEPT ![e] = Returned(c, "Ok")]
    /\ hist' = [hist EXCEPT ![e].pre = sock[e]]
    /\ UNCHANGED udp

NextFn ==
    \/ \E e \in Endpoints : \E p \in Adversary \ {Malformed} :
          \E d \in Delays, rnd \in Rnds(p) : CallDispatch(e, p, d, rnd)
    \/ \E e \in Endpoints : CallOnDataLoss(e)
    \/ \E e \in Endpoints : Return(e)

SpecFn == InitFn /\ [][NextFn]_vars

(***************************************************************************)
(* Properties                                                              *)
(***************************************************************************)
Last(q) == q[Len(q)]

\* endpoint e queues a Data packet in this step (send_packet line 235)
Queued(e) ==
    Len(sock'[e].inflight_packets) = Len(sock[e].inflight_packets) + 1

\* endpoint e hands a datagram to the transport in this step
Transmits(e) == Len(call'[e].sent) = Len(call[e].sent) + 1

\* C1: a Data packet is transmitted only when the bytes in flight plus its
\* size are at most min(cwnd, remote_window) at that moment, so the bytes in
\* flight right after the transmission do not exceed that window.
WindowGating ==
    [][\A e \in Endpoints :
         Queued(e) =>
           /\ inflight_size(sock[e]) + Last(sock'[e].inflight_packets).size
                <= Min(sock[e].cwnd, sock[e].remote_window)
           /\ inflight_size(sock'[e])
                <= Min(sock'[e].cwnd, sock'[e].remote_window)]_vars

\* C1 witness: a packet was admitted behind another one still in flight
WindowGatingWitness ==
    \E e \in Endpoints :
        /\ call[e].op = "send" /\ call[e].sent # <<>>
        /\ Len(sock[e].inflight_packets) >= 2

\* C2: send returns Ok only when every segment it transmitted is covered by a
\* State packet dispatched during the call, and no segment of the call leaves
\* the inflight queue before such a packet was dispatched.
SendOkMeansAcked ==
    \A e \in Endpoints :
        /\ hist[e].unacked \subseteq Seqs(sock[e].inflight_packets)
        /\ (call[e].pc = "done" /\ call[e].op = "send" /\ call[e].ret = "Ok")
              => hist[e].unacked = {}

\* C3: a State packet whose ack number matches no inflight entry is reported
\* as an error; no call ends in a panic.
UnexpectedAckIsError == \A e \in Endpoints : call[e].ret # "panic"

\* q without its first entry of sequence number n
RECURSIVE RemoveSeq(_, _)
RemoveSeq(q, n) ==
    IF q = <<>> THEN <<>>
    ELSE IF Head(q).seq_number = n THEN Tail(q)
    ELSE <<Head(q)>> \o RemoveSeq(Tail(q), n)

\* C4: a State packet dispatched in state Connected whose ack number N matches
\* an inflight entry removes exactly the entry of sequence number N.
AckRemovesExactly ==
    [][\A e \in Endpoints : \A p \in Datagrams(e), d \in Delays :
         ( /\ p.type = "State" /\ sock[e].state = "Connected"
           /\ ~ is_packet_acked(sock[e], p.ack_number)
           /\ ReceiveDatagram(e, p, d, SeqBase) )
         => sock'[e].inflight_packets =
               RemoveSeq(sock[e].inflight_packets, p.ack_number)]_vars

\* C5 (as claimed): every datagram an endpoint transmits carries a sequence
\* number strictly above (mod 2^16) that of the datagram it transmitted before.
SeqStrictlyIncreases ==
    [][\A e \in Endpoints :
         (Transmits(e) /\ udp[e].out # NoPacket)
         => cmp_less(udp[e].out.seq_number, Last(call'[e].sent))]_vars

\* C5 (amended): the sequence numbers of transmitted datagrams strictly
\* increase (mod 2^16), except that the retransmissions of one connect call's
\* SYN repeat its number, and except across a Syn dispatched in state None,
\* which draws seq_number anew.
SeqIncreasesBetweenReseeds ==
    [][\A e \in Endpoints :
         (Transmits(e) /\ udp[e].out # NoPacket)
         => \/ cmp_less(udp[e].out.seq_number, Last(call'[e].sent))
            \/ /\ call[e].pc = "connect_send" /\ call[e].round > 0
               /\ Last(call'[e].sent) = udp[e].out.seq_number
            \/ hist[e].reseeded]_vars

\* C5 witness: a Data packet went out after an earlier datagram
SeqIncreasesWitness ==
    \E e \in Endpoints :
        /\ udp[e].out.type = "Data" /\ hist[e].built >= 2
        /\ ~ hist[e].reseeded

TimeoutBackoff ==
    \A e \in Endpoints :
        (call[e].pc = "done" /\ call[e].op = "send" /\ call[e].ret = "TimedOut")
        => /\ Len(call[e].waits) = ATTEMPTS
           /\ \A i \in 1 .. ATTEMPTS :
                 call[e].waits[i] = call[e].waits[1] * Pow2(i - 1)
           /\ sock[e].congestion_timeout = 2 * call[e].waits[1]

\* A opened through SynSent, B accepted a Syn in state None
HandshakeDone ==
    /\ hist["A"].path = <<"None", "SynSent", "Connected">>
    /\ hist["B"].path = <<"None", "Connected">>

\* C8 (as claimed): after the handshake A.send_id == B.recv_id - 1
HandshakeIdsAsClaimed ==
    HandshakeDone => sock["A"].send_id = Sub16(sock["B"].recv_id, 1)

\* C8 (amended): after the handshake B addresses A by A's recv_id and listens
\* on the id after it: B.send_id == A.recv_id and B.recv_id == A.recv_id + 1,
\* so that A.send_id == B.recv_id - 2.
HandshakeIds ==
    HandshakeDone =>
        /\ sock["B"].send_id = sock["A"].recv_id
        /\ sock["B"].recv_id = Add16(sock["A"].recv_id, 1)
        /\ sock["A"].send_id = Sub16(sock["B"].recv_id, 2)

\* C8 witness: the handshake has completed on both sides
HandshakeWitness ==
    /\ HandshakeDone
    /\ call["A"].op = "connect" /\ call["A"].ret = "Ok"

\* C9: a connect call whose rounds all time out transmitted the SYN 3 times
\* with one sequence number, fails with a timeout, and changed nothing but
\* seq_number, incremented once.
ConnectTimeoutClean ==
    \A e \in Endpoints :
        (call[e].pc = "done" /\ call[e].op = "connect" /\ call[e].ret = "TimedOut")
        => /\ call[e].sent = [i \in 1 .. 3 |-> hist[e].pre.seq_number]
           /\ sock[e] = [hist[e].pre EXCEPT !.seq_number = Add16(@, 1)]

\* C9 witness: a connect call has timed out on a socket that had sent before
ConnectTimeoutWitness ==
    \E e \in Endpoints :
        /\ call[e].pc = "done" /\ call[e].op = "connect" /\ call[e].ret = "TimedOut"
        /\ sock[e].inflight_packets # <<>>

\* C10: every call to send eventually returns
SendReturns ==
    \A e \in {"A"} :
        (call[e].op = "send" /\ call[e].pc \notin {"done", "panicked"})
        ~> (call[e].pc \in {"done", "panicked", "idle"})

\* C11: a datagram the codec rejects (undecodable buffer or unknown packet
\* type) is dropped: the send call whose receive loop read it does not fail
\* because of it.
DecodeErrorsDropped ==
    \A e \in Endpoints : ~ (call[e].op = "send" /\ call[e].ret = "Decode")

\* C12: connect with an address of the other IP family returns the
\* family-mismatch error at once: nothing is handed to the transport (no
\* udp.connect, no SYN, no receive) and no field of the socket changes.
FamilyMismatchFailsFast ==
    [][\A e \in Endpoints, addr \in Families :
         (ConnectCall(e, addr) /\ addr # sock[e].local)
         => /\ call'[e].pc = "done" /\ call'[e].ret = "FamillyMismatch"
            /\ call'[e].sent = <<>>
            /\ sock' = sock
            /\ udp' = udp]_vars

\* C12 witness: the mismatch was reported, the datagram socket still
\* unconnected and the socket as it was at the call
FamilyMismatchWitness ==
    \E e \in Endpoints :
        /\ call[e].pc = "done" /\ call[e].ret = "FamillyMismatch"
        /\ ~ udp[e].connected
        /\ sock[e] = hist[e].pre

\* C13: a transport failure of a receive (other than would-block/timed-out)
\* ends the call at once with that error, nothing more being transmitted or
\* received in the call; only a timeout moves connect to its next round or
\* receive_packet to its next attempt, and a call makes at most 3 of them.
TransportNotRetried ==
    [][\A e \in Endpoints :
         /\ (ConnectError(e) \/ ReceiveError(e))
            => /\ call'[e].pc = "done" /\ call'[e].ret = "Transport"
               /\ call'[e].sent = call[e].sent
         /\ (call'[e].round = call[e].round + 1) => ConnectTimeout(e)
         /\ (call'[e].attempt = call[e].attempt + 1) => ReceiveTimeout(e)
         /\ call'[e].round < ATTEMPTS /\ call'[e].attempt < ATTEMPTS
         /\ Len(call'[e].waits) <= ATTEMPTS
         /\ (call'[e].op = "connect" => Len(call'[e].sent) <= ATTEMPTS)]_vars

\* C13 witness: receive_packet failed with a transport error on its second
\* attempt, after one timeout
TransportNotRetriedWitness ==
    \E e \in Endpoints :
        /\ call[e].pc = "done" /\ call[e].op = "send" /\ call[e].ret = "Transport"
        /\ Len(call[e].waits) = 2

\* C14: on_data_loss sets cwnd to min(c, max(c / 2, MIN_CWND * MSS)) for the
\* cwnd c it finds (integer division), never raises it, and changes no other
\* field.
LossResponse ==
    \A e \in Endpoints :
        (call[e].pc = "done" /\ call[e].op = "on_data_loss")
        => LET c == hist[e].pre.cwnd
               half == c \div 2
               floor == MIN_CWND * MSS
               bounded == IF half >= floor THEN half ELSE floor
           IN /\ sock[e].cwnd = (IF c <= bounded THEN c ELSE bounded)
              /\ sock[e].cwnd <= c
              /\ sock[e] = [hist[e].pre EXCEPT !.cwnd = sock[e].cwnd]

\* C14 witness: an odd cwnd above twice the floor was halved
LossResponseWitness ==
    \E e \in Endpoints :
        /\ call[e].pc = "done" /\ call[e].op = "on_data_loss"
        /\ hist[e].pre.cwnd > 2 * MIN_CWND * MSS
        /\ hist[e].pre.cwnd % 2 = 1
        /\ hist[e].pre.cwnd < CwndTop
        /\ sock[e].cwnd = hist[e].pre.cwnd \div 2

\* the cells of the dispatch table that ignore the packet
IgnoredCell(type, state) ==
    \/ type = "Syn" /\ state \in {"SynSent", "Connected", "FinSent"}
    \/ type = "State" /\ state \in {"None", "FinSent"}
    \/ type \in {"Data", "Fin", "Reset"}

\* C15: dispatching a packet of an ignored cell (a Syn outside None, a State
\* packet in None or FinSent, a Data, Fin or Reset packet in any state)
\* returns Ok and changes no field of the socket but the measured delay.
IgnoredCellsFrame ==
    \A e \in Endpoints :
        (call[e].op = "dispatch" /\ call[e].pc \in {"done", "panicked"}
           /\ IgnoredCell(call[e].header.type, hist[e].pre.state))
        => /\ call[e].ret = "Ok"
           /\ sock[e] = [hist[e].pre EXCEPT !.delay = sock[e].delay]

\* C15 witness: a Syn was dispatched in state FinSent with packets in flight
IgnoredCellsWitness ==
    \E e \in Endpoints :
        /\ call[e].op = "dispatch" /\ call[e].pc = "done"
        /\ call[e].header.type = "Syn" /\ hist[e].pre.state = "FinSent"
        /\ hist[e].pre.inflight_packets # <<>>
        /\ sock[e].delay # hist[e].pre.delay

\* recv_id and send_id of a socket
Ids(s) == <<s.recv_id, s.send_id>>

\* C16: once the state has left None, recv_id and send_id never change, under
\* any connect call, send call or received packet; the ids change only in
\* the step that dispatches a Syn in state None.
IdsImmutable ==
    [][\A e \in Endpoints :
         /\ sock[e].state # "None" => Ids(sock'[e]) = Ids(sock[e])
         /\ Ids(sock'[e]) # Ids(sock[e])
            => /\ sock[e].state = "None"
               /\ \E p \in Datagrams(e) : p.type = "Syn" /\ Receives(e, p)]_vars

\* C16 witness: a socket that accepted a Syn in state None has since run a
\* connect call that was answered, and holds the ids it adopted
IdsImmutableWitness ==
    \E e \in Endpoints :
        /\ hist[e].path = <<"None", "Connected", "SynSent", "Connected">>
        /\ \E id \in PeerIds : Ids(sock[e]) = <<Add16(id, 1), id>>

\* C17: remote_window is the window carried by the most recent State packet
\* dispatched after the handshake began: a State packet dispatched in state
\* SynSent or Connected (an ACK included) leaves remote_window equal to the
\* window it advertises.
RemoteWindowIsLastAdvertised ==
    [][\A e \in Endpoints : \A p \in Datagrams(e) :
         (/\ p.type = "State"
          /\ sock[e].state \in {"SynSent", "Connected"}
          /\ Receives(e, p)
          /\ call'[e].ret # "panic")
         => sock'[e].remote_window = p.window_size]_vars

\* C18: whenever connect returns Ok the connection state is Connected,
\* whatever datagram answered the SYN.
ConnectOkMeansConnected ==
    \A e \in Endpoints :
        (call[e].pc = "done" /\ call[e].op = "connect" /\ call[e].ret = "Ok")
        => sock[e].state = "Connected"

\* C19 (as claimed): whenever send returns Ok the inflight queue is empty
DrainedOnSuccess ==
    \A e \in Endpoints :
        (call[e].pc = "done" /\ call[e].op = "send" /\ call[e].ret = "Ok")
        => sock[e].inflight_packets = <<>>

\* C19 (amended): whenever a send call that transmitted at least one packet
\* returns Ok, the inflight queue is empty (a send of the empty buffer can
\* return Ok with packets of earlier calls still queued).
DrainedAfterTransmit ==
    \A e \in Endpoints :
        (call[e].pc = "done" /\ call[e].op = "send" /\ call[e].ret = "Ok"
           /\ call[e].sent # <<>>)
        => sock[e].inflight_packets = <<>>

\* C19 witness: a send call that transmitted two packets has returned Ok
DrainedAfterTransmitWitness ==
    \E e \in Endpoints :
        /\ call[e].pc = "done" /\ call[e].op = "send" /\ call[e].ret = "Ok"
        /\ Len(call[e].sent) = 2

\* position of a state in the lifecycle None -> SynSent -> Connected -> FinSent
Rank(state) ==
    CASE state = "None" -> 0
      [] state = "SynSent" -> 1
      [] state = "Connected" -> 2
      [] state = "FinSent" -> 3

\* C20: no step of a connect call, a send call or the receive loop takes the
\* connection state back to an earlier state of the lifecycle.
StateMovesForward ==
    [][\A e \in Endpoints : Rank(sock'[e].state) >= Rank(sock[e].state)]_vars

====
